---- MODULE Spec2Model ----
(***************************************************************************)
(* A model of the FreshRSS MCP server (src/src/index.ts): the Fever       *)
(* ("simple protocol") client with its unread-item reconstruction, the    *)
(* Google Reader ("session protocol") login / edit-token flow, and the    *)
(* subscribe / create-category / unsubscribe operations built on it.      *)
(*                                                                         *)
(* Every tool call is an invocation o.  An async method suspends at each  *)
(* `await`; the code between two awaits runs atomically (single-threaded  *)
(* event loop), so each action below is one such stretch of code.  The    *)
(* remote service is a separate party: it takes an outstanding request    *)
(* and puts a response in the inbox of the invocation.                     *)
(*                                                                         *)
(* Text is modelled as a sequence of symbols (one-character strings, or   *)
(* an atom such as an item id); JavaScript objects are records that hold  *)
(* only the fields that are present.                                       *)
(***************************************************************************)
EXTENDS Integers, Sequences, FiniteSets, TLC

VARIABLES pc, tool, args, loc, outstanding, inbox, sent, recv, result,
          tags, issued, chunk

vars == <<pc, tool, args, loc, outstanding, inbox, sent, recv, result,
          tags, issued, chunk>>

-----------------------------------------------------------------------------
(* Bounds of the model and constants of the program *)

\* number of tool invocations that may be in flight together
MaxOps == 2

\* longest unread-id list the service reports
MaxIds == 101

\* most items in a raw get_feed_items response
MaxFeedItems == 3

\* getUnreadItems: chunkArray(unreadIds, 50)
BatchSize == 50

Ops == 1..MaxOps

-----------------------------------------------------------------------------
(* Text helpers *)

Min(a, b) == IF a <= b THEN a ELSE b

\* JavaScript whitespace, as far as the modelled bodies use it
IsSpace(c) == c \in {" ", "\n"}

RECURSIVE TrimStart(_)
TrimStart(s) ==
  IF s # <<>> /\ IsSpace(Head(s)) THEN TrimStart(Tail(s)) ELSE s

RECURSIVE TrimEnd(_)
TrimEnd(s) ==
  IF s # <<>> /\ IsSpace(s[Len(s)]) THEN TrimEnd(SubSeq(s, 1, Len(s) - 1)) ELSE s

\* String.prototype.trim
Trim(s) == TrimEnd(TrimStart(s))

\* String.prototype.split(','): the pieces between the separators; '' gives ['']
Split(s, sep) ==
  LET at == SelectSeq([i \in 1..Len(s) |-> i], LAMBDA i : s[i] = sep)
      from(k) == IF k = 1 THEN 1 ELSE at[k - 1] + 1
      to(k) == IF k = Len(at) + 1 THEN Len(s) ELSE at[k] - 1
  IN  [k \in 1..(Len(at) + 1) |-> SubSeq(s, from(k), to(k))]

\* the concatenation of a sequence of sequences (by halves)
RECURSIVE Flatten(_)
Flatten(ss) ==
  IF ss = <<>> THEN <<>>
  ELSE IF Len(ss) = 1 THEN ss[1]
  ELSE LET h == Len(ss) \div 2
       IN  Flatten(SubSeq(ss, 1, h)) \o Flatten(SubSeq(ss, h + 1, Len(ss)))

\* Array.prototype.join(',')
Join(parts, sep) ==
  IF parts = <<>> THEN <<>>
  ELSE Flatten([i \in 1..(2 * Len(parts) - 1) |->
                  IF i % 2 = 1 THEN parts[(i + 1) \div 2] ELSE <<sep>>])

\* optional field access: obj?.f, with a default for undefined
Has(obj, f) == f \in DOMAIN obj

-----------------------------------------------------------------------------
(* chunkArray *)

\* the for loop of chunkArray: i runs 0, chunkSize, 2*chunkSize, ... below arr.length
RECURSIVE chunkLoop(_, _, _, _)
chunkLoop(arr, chunkSize, i, out) ==
  IF i < Len(arr)
  THEN chunkLoop(arr, chunkSize, i + chunkSize,
                 Append(out, SubSeq(arr, i + 1, Min(i + chunkSize, Len(arr)))))
  ELSE out

\* a chunkArray whose slices overlap by one element (slice(i, i + chunkSize + 1))
chunkArrayOverlap(arr, chunkSize) ==
  [k \in 1..Len(chunkLoop(arr, chunkSize, 0, <<>>)) |->
     SubSeq(arr, (k - 1) * chunkSize + 1, Min(k * chunkSize + 1, Len(arr)))]

chunkArray(arr, chunkSize) ==
  IF chunkSize <= 0 THEN <<arr>> ELSE chunkLoop(arr, chunkSize, 0, <<>>)

-----------------------------------------------------------------------------
(* Outcomes, errors and the step of an invocation *)

NoResult == [kind |-> "none"]

Returned(v) == [kind |-> "return", value |-> v]

Thrown(e) == [kind |-> "throw", error |-> e]

\* new McpError(code, `${prefix}${detail}`)
McpError(code, prefix, detail) ==
  [class |-> "McpError", code |-> code, prefix |-> prefix, detail |-> detail]

\* new Error(message)
PlainError(message) == [class |-> "Error", message |-> message]

\* an error axios rejects with: a response outside validateStatus, or no response
AxiosError(resp) == [class |-> "AxiosError", response |-> resp]

\* a JavaScript array value, told apart from any other value by Array.isArray
Arr(elems) == [array |-> elems]

isArray(v) == Has(v, "array")

\* axios resolves a response whose status is 2xx (its default validateStatus)
IsResolved(resp) == resp.kind = "response" /\ resp.status \in 200..299

\* the message of an axios error
AxiosMessage(resp) ==
  IF resp.kind = "error" THEN resp.message ELSE "Request failed with status code"

\* what one stretch of code between two awaits does: where the invocation
\* stands afterwards, its locals, the requests it sends, what the method returns
Step(p, l, send, out) == [pc |-> p, loc |-> l, send |-> send, out |-> out]

Return(v) == Step("done", [fn |-> "none"], <<>>, Returned(v))

Throw(e) == Step("done", [fn |-> "none"], <<>>, Thrown(e))

-----------------------------------------------------------------------------
(* FreshRSSClient.request: one Fever call *)

FeverReq(data) == [api |-> "fever", url |-> "/api/fever.php", data |-> data]

\* a request() that hands back whatever a 2xx response holds
requestUnchecked(resp) ==
  IF ~IsResolved(resp)
  THEN [ok |-> FALSE,
        error |-> McpError("InternalError", "FreshRSS API error: ",
                    IF resp.kind = "response" /\ Has(resp.data, "error")
                    THEN resp.data.error ELSE AxiosMessage(resp))]
  ELSE [ok |-> TRUE, data |-> resp.data]

\* the outcome of request() once axios settles with resp: the data, or the error thrown
request(resp) ==
  IF ~IsResolved(resp)
  THEN [ok |-> FALSE,
        error |-> McpError("InternalError", "FreshRSS API error: ",
                    IF resp.kind = "response" /\ Has(resp.data, "error")
                    THEN resp.data.error ELSE AxiosMessage(resp))]
  ELSE IF ~(Has(resp.data, "api_version") /\ resp.data.api_version # 0)
  THEN [ok |-> FALSE, error |-> PlainError("Invalid API response")]
  ELSE [ok |-> TRUE, data |-> resp.data]

-----------------------------------------------------------------------------
(* FreshRSSClient.getUnreadItems *)

\* a split that trims the pieces and keeps the empty ones
parseUnreadIdsKeepEmpty(data) ==
  LET raw    == IF Has(data, "unread_item_ids") THEN data.unread_item_ids ELSE <<>>
      pieces == Split(raw, ",")
  IN  [i \in 1..Len(pieces) |-> Trim(pieces[i])]

\* String(resp.unread_item_ids || '').split(',').map(trim).filter(Boolean)
parseUnreadIds(data) ==
  LET raw    == IF Has(data, "unread_item_ids") THEN data.unread_item_ids ELSE <<>>
      pieces == Split(raw, ",")
      trimmed == [i \in 1..Len(pieces) |-> Trim(pieces[i])]
  IN  SelectSeq(trimmed, LAMBDA p : p # <<>>)

itemsRequest(batch) == FeverReq([items |-> <<>>, with_ids |-> Join(batch, ",")])

\* the fields of obj among fs that are present
Pick(obj, fs) == [f \in (fs \cap DOMAIN obj) |-> obj[f]]

\* an envelope that counts the accumulated items instead of the filtered ones
unreadEnvelopeUnfiltered(unreadIdsResp, allUnreadItems) ==
  Pick(unreadIdsResp, {"api_version", "auth", "last_refreshed_on_time"})
    @@ [total_items |-> Len(allUnreadItems), items |-> Arr(allUnreadItems)]

\* lines 139-148: the defensive filter and the returned envelope
unreadEnvelope(unreadIdsResp, allUnreadItems) ==
  LET items == SelectSeq(allUnreadItems, LAMBDA item : item.is_read = 0)
  IN  Pick(unreadIdsResp, {"api_version", "auth", "last_refreshed_on_time"})
        @@ [total_items |-> Len(items), items |-> Arr(items)]

\* up to the first await: the unread-id request
getUnreadItems_start ==
  Step("ids", [fn |-> "getUnreadItems"], <<FeverReq([unread_item_ids |-> <<>>])>>,
       NoResult)

\* the loop head: request batch k, or leave the loop and return
unreadLoop(unreadIdsResp, batches, k, allUnreadItems) ==
  IF k <= Len(batches)
  THEN Step("items",
            [fn |-> "getUnreadItems", unreadIdsResp |-> unreadIdsResp,
             batches |-> batches, k |-> k, allUnreadItems |-> allUnreadItems],
            <<itemsRequest(batches[k])>>, NoResult)
  ELSE Return(unreadEnvelope(unreadIdsResp, allUnreadItems))

\* a loop that fires every batch request at once (Promise.all over the batches)
unreadAfterIdsConcurrent(resp) ==
  LET r == request(resp)
      batches == chunkArray(parseUnreadIds(r.data), BatchSize)
  IN  IF ~r.ok THEN Throw(r.error)
      ELSE IF batches = <<>> THEN Return(unreadEnvelope(r.data, <<>>))
      ELSE Step("items",
                [fn |-> "getUnreadItems", unreadIdsResp |-> r.data,
                 batches |-> batches, k |-> 1, allUnreadItems |-> <<>>],
                [k \in 1..Len(batches) |-> itemsRequest(batches[k])], NoResult)

\* the unread-id response arrived: split the ids, chunk them, enter the loop
getUnreadItems_afterIds(resp) ==
  LET r == request(resp)
  IN  IF ~r.ok THEN Throw(r.error)
      ELSE unreadLoop(r.data, chunkArray(parseUnreadIds(r.data), BatchSize), 1, <<>>)

\* a loop body that skips a failed batch and goes on (a catch inside the loop)
unreadAfterItemsSkipFailed(l, resp) ==
  LET r == request(resp)
      got == IF r.ok /\ Has(r.data, "items") /\ isArray(r.data.items)
             THEN l.allUnreadItems \o r.data.items.array
             ELSE l.allUnreadItems
  IN  unreadLoop(l.unreadIdsResp, l.batches, l.k + 1, got)

\* a loop body that, when a batch request fails, waits on for a response that
\* will not come (a promise that never settles)
unreadAfterItemsNeverSettles(l, resp) ==
  LET r == request(resp)
  IN  IF ~r.ok THEN Step("items", l, <<>>, NoResult)
      ELSE unreadLoop(l.unreadIdsResp, l.batches, l.k + 1,
                      IF Has(r.data, "items") /\ isArray(r.data.items)
                      THEN l.allUnreadItems \o r.data.items.array
                      ELSE l.allUnreadItems)

\* the response for batch k arrived: accumulate its items, go round the loop
getUnreadItems_afterItems(l, resp) ==
  LET r == request(resp)
  IN  IF ~r.ok THEN Throw(r.error)
      ELSE unreadLoop(l.unreadIdsResp, l.batches, l.k + 1,
                      IF Has(r.data, "items") /\ isArray(r.data.items)
                      THEN l.allUnreadItems \o r.data.items.array
                      ELSE l.allUnreadItems)

-----------------------------------------------------------------------------
(* Numbers and their text: parseInt(s, 10) and String(n) *)

Digits == <<"0", "1", "2", "3", "4", "5", "6", "7", "8", "9">>

IsDigit(c) == \E d \in 1..10 : Digits[d] = c

DigitValue(c) == (CHOOSE d \in 1..10 : Digits[d] = c) - 1

\* the value of a run of decimal digits, read left to right
RECURSIVE DigitsValue(_, _)
DigitsValue(ds, acc) ==
  IF ds = <<>> THEN acc ELSE DigitsValue(Tail(ds), 10 * acc + DigitValue(Head(ds)))

\* the longest prefix of s made of digits
RECURSIVE DigitPrefix(_)
DigitPrefix(s) ==
  IF s # <<>> /\ IsDigit(Head(s)) THEN <<Head(s)>> \o DigitPrefix(Tail(s)) ELSE <<>>

\* a JavaScript number: an integer, or NaN
NaN == [nan |-> TRUE]

Num(n) == [nan |-> FALSE, n |-> n]

\* parseInt(s, 10): leading whitespace skipped, a sign, then the digits; NaN without any
parseInt(s) ==
  LET t    == TrimStart(s)
      neg  == t # <<>> /\ Head(t) = "-"
      body == IF t # <<>> /\ Head(t) \in {"-", "+"} THEN Tail(t) ELSE t
      ds   == DigitPrefix(body)
  IN  IF ds = <<>> THEN NaN
      ELSE Num(IF neg THEN 0 - DigitsValue(ds, 0) ELSE DigitsValue(ds, 0))

\* String(n) of a non-negative integer
RECURSIVE NatToString(_)
NatToString(n) ==
  IF n < 10 THEN <<Digits[n + 1]>> ELSE NatToString(n \div 10) \o <<Digits[(n % 10) + 1]>>

IntToString(n) == IF n < 0 THEN <<"-">> \o NatToString(0 - n) ELSE NatToString(n)

\* String(v) of a number
NumberToString(v) == IF v.nan THEN <<"N", "a", "N">> ELSE IntToString(v.n)

-----------------------------------------------------------------------------
(* FreshRSSClient.getFeedItems and the get_feed_items tool *)

\* up to the await: the items request with feed_ids = String(parseInt(feedId, 10))
getFeedItems_start(feedId) ==
  Step("feed", [fn |-> "getFeedItems"],
       <<FeverReq([items |-> <<>>, feed_ids |-> NumberToString(parseInt(feedId))])>>,
       NoResult)

getFeedItems_after(resp) ==
  LET r == request(resp) IN IF ~r.ok THEN Throw(r.error) ELSE Return(r.data)

\* a handler that filters the items and leaves the count of the raw response
feedItemsStaleCount(feed_id, response) ==
  IF Has(response, "items") /\ isArray(response.items)
  THEN [response EXCEPT !.items =
          Arr(SelectSeq(response.items.array,
                LAMBDA item : IntToString(item.feed_id) = NumberToString(parseInt(feed_id))))]
  ELSE response

\* lines 580-591: keep the items of the requested feed, update the count if there is one
filterFeedItems(feed_id, response) ==
  IF Has(response, "items") /\ isArray(response.items)
  THEN LET numericFeedId == parseInt(feed_id)
           kept == SelectSeq(response.items.array,
                     LAMBDA item : IntToString(item.feed_id) = NumberToString(numericFeedId))
           filtered == [response EXCEPT !.items = Arr(kept)]
       IN  IF Has(response, "total_items")
           THEN [filtered EXCEPT !.total_items = Len(kept)]
           ELSE filtered
  ELSE response

-----------------------------------------------------------------------------
(* FreshRSSClient.getGReaderAuthAndToken: login, then the edit token *)

\* a JavaScript string value, told apart from an object by typeof
Str(text) == [str |-> text]

IsString(v) == Has(v, "str")

\* an object without fields
Empty == [f \in {} |-> TRUE]

\* String(v): the text of a string, or what an object turns into
StringOf(v) == IF IsString(v) THEN v.str ELSE <<"[object Object]">>

\* a value that counts as true in a condition: any object, any string but ''
Truthy(v) == IF IsString(v) THEN v.str # <<>> ELSE TRUE

\* the detail of a wrapped error: err.response?.data || err.message
CaughtDetail(resp) ==
  IF resp.kind = "response" /\ Truthy(resp.data) THEN resp.data
  ELSE Str(<<AxiosMessage(resp)>>)

GReaderReq(url, fields) == [api |-> "greader", url |-> url] @@ fields

loginRequest ==
  GReaderReq("/accounts/ClientLogin", [data |-> [Email |-> "username", Passwd |-> "password"]])

tokenRequest(auth) == GReaderReq("/reader/api/0/token", [auth |-> auth])

\* the longest run of non-whitespace symbols at the head of s
RECURSIVE NonSpacePrefix(_)
NonSpacePrefix(s) ==
  IF s # <<>> /\ ~IsSpace(Head(s)) THEN <<Head(s)>> \o NonSpacePrefix(Tail(s)) ELSE <<>>

\* text.match(/Auth=([^\s\n]+)/): the places where the marker is followed by a token
AuthMatches(text) ==
  {i \in 1..Len(text) : text[i] = "Auth=" /\ i < Len(text) /\ ~IsSpace(text[i + 1])}

\* the capture group of the first match
AuthOfMatch(text) ==
  LET i == CHOOSE k \in AuthMatches(text) : \A j \in AuthMatches(text) : k <= j
  IN  Trim(NonSpacePrefix(SubSeq(text, i + 1, Len(text))))

\* .replace(/\s/g, '')
StripSpace(text) == SelectSeq(text, LAMBDA c : ~IsSpace(c))

\* a login that goes on without a token when the body has no Auth=<token>
sessionAfterLoginLenient(l, resp) ==
  IF ~IsResolved(resp)
  THEN Throw(McpError("InternalError", "FreshRSS Google Reader login failed: ",
                      CaughtDetail(resp)))
  ELSE LET auth == IF AuthMatches(StringOf(resp.data)) = {} THEN <<>>
                   ELSE AuthOfMatch(StringOf(resp.data))
       IN  Step("token", [fn |-> l.fn, auth |-> auth], <<tokenRequest(auth)>>, NoResult)

\* the login response arrived: find the auth token, ask for the edit token
session_afterLogin(l, resp) ==
  IF ~IsResolved(resp)
  THEN Throw(McpError("InternalError", "FreshRSS Google Reader login failed: ",
                      CaughtDetail(resp)))
  ELSE IF AuthMatches(StringOf(resp.data)) = {}
  THEN Throw(McpError("InternalError",
                      "FreshRSS Google Reader: no Auth token in login response", Str(<<>>)))
  ELSE LET auth == AuthOfMatch(StringOf(resp.data))
       IN  Step("token", [fn |-> l.fn, auth |-> auth], <<tokenRequest(auth)>>, NoResult)

\* a token step that takes whatever text comes back as the edit token
sessionAfterTokenUnchecked(l, resp) ==
  IF ~IsResolved(resp)
  THEN [ok |-> FALSE,
        error |-> McpError("InternalError", "FreshRSS Google Reader token failed: ",
                           CaughtDetail(resp))]
  ELSE IF ~IsString(resp.data)
  THEN [ok |-> FALSE, error |-> [class |-> "TypeError",
                                 message |-> "tokenRes.data?.trim is not a function"]]
  ELSE [ok |-> TRUE, auth |-> l.auth, editToken |-> StripSpace(Trim(resp.data.str))]

\* the token response arrived: the session, or the error thrown instead
session_afterToken(l, resp) ==
  IF ~IsResolved(resp)
  THEN [ok |-> FALSE,
        error |-> McpError("InternalError", "FreshRSS Google Reader token failed: ",
                           CaughtDetail(resp))]
  ELSE IF ~IsString(resp.data)
  THEN [ok |-> FALSE, error |-> [class |-> "TypeError",
                                 message |-> "tokenRes.data?.trim is not a function"]]
  ELSE IF StripSpace(Trim(resp.data.str)) = <<>>
  THEN [ok |-> FALSE,
        error |-> McpError("InternalError",
                           "FreshRSS Google Reader: no edit token returned", Str(<<>>))]
  ELSE [ok |-> TRUE, auth |-> l.auth, editToken |-> StripSpace(Trim(resp.data.str))]

-----------------------------------------------------------------------------
(* FreshRSSClient.subscribeFeed *)

\* the subscription/edit request; validate says which statuses axios resolves
editRequest(auth, params, validate) ==
  GReaderReq("/reader/api/0/subscription/edit",
             [auth |-> auth, data |-> params, validateStatus |-> validate])

labelOf(categoryName) == <<"user/-/label/">> \o categoryName

\* lines 252-271: the subscribe request, with the label if a category is given
subscribeFeed_afterSession(a, session) ==
  LET base == [ac |-> "subscribe", s |-> <<"feed/">> \o a.feed_url, T |-> session.editToken]
      params == IF Has(a, "category_name") /\ a.category_name # <<>>
                THEN base @@ [a |-> labelOf(a.category_name)] ELSE base
  IN  Step("subscribe", [fn |-> "subscribeFeed"],
           <<editRequest(session.auth, params, "any")>>, NoResult)

\* line 275: the message of a soft failure
subscribeError(body) ==
  IF IsString(body) THEN body
  ELSE IF Has(body, "error") /\ Truthy(body.error) THEN body.error
  ELSE IF Has(body, "message") /\ Truthy(body.message) THEN body.message
  ELSE [json |-> body]

\* a record that prefers feedId and title to streamId and streamName
subscribeRecordFeedIdFirst(body) ==
  LET b == IF IsString(body) THEN Empty ELSE body
  IN  (IF Has(b, "feedId") THEN [feedId |-> b.feedId]
       ELSE IF Has(b, "streamId") THEN [feedId |-> b.streamId] ELSE Empty)
      @@ (IF Has(b, "title") THEN [title |-> b.title]
          ELSE IF Has(b, "streamName") THEN [title |-> b.streamName] ELSE Empty)
      @@ Pick(b, {"numResults", "error"})

\* lines 282-287: the record of a structured body
subscribeRecord(body) ==
  LET b == IF IsString(body) THEN Empty ELSE body
  IN  (IF Has(b, "streamId") THEN [feedId |-> b.streamId]
       ELSE IF Has(b, "feedId") THEN [feedId |-> b.feedId] ELSE Empty)
      @@ (IF Has(b, "streamName") THEN [title |-> b.streamName]
          ELSE IF Has(b, "title") THEN [title |-> b.title] ELSE Empty)
      @@ Pick(b, {"numResults", "error"})

\* a subscribeFeed that throws on a status other than 200 (axios's own default)
subscribeAfterEditThrowing(resp) ==
  IF resp.kind = "error" \/ resp.status # 200 THEN Throw(AxiosError(resp))
  ELSE IF IsString(resp.data) /\ Trim(resp.data.str) = <<"O", "K">>
  THEN Return([numResults |-> 1])
  ELSE Return(subscribeRecord(resp.data))

\* lines 273-287: the subscription/edit response arrived
subscribeFeed_afterEdit(resp) ==
  IF resp.kind = "error" THEN Throw(AxiosError(resp))
  ELSE IF resp.status # 200 THEN Return([error |-> subscribeError(resp.data)])
  ELSE IF IsString(resp.data) /\ Trim(resp.data.str) = <<"O", "K">>
  THEN Return([numResults |-> 1])
  ELSE Return(subscribeRecord(resp.data))

-----------------------------------------------------------------------------
(* FreshRSSClient.createCategory *)

tagListRequest(auth) ==
  GReaderReq("/reader/api/0/tag/list", [auth |-> auth, params |-> [output |-> "json"]])

placeholderFeed == <<"https://github.com/FreshRSS/FreshRSS/releases.atom">>

\* lines 297-301: the tag list is read first
createCategory_afterSession(a, session) ==
  Step("taglist",
       [fn |-> "createCategory", auth |-> session.auth, editToken |-> session.editToken],
       <<tagListRequest(session.auth)>>, NoResult)

\* listRes.data?.tags ?? []
tagsOf(data) ==
  IF ~IsString(data) /\ Has(data, "tags") THEN data.tags.array ELSE <<>>

\* tags.some((t) => t.id === labelId)
categoryExists(ts, labelId) ==
  \E i \in 1..Len(ts) : Has(ts[i], "id") /\ ts[i].id = labelId

placeholderSubscribe(l, labelId) ==
  editRequest(l.auth,
              [ac |-> "subscribe", s |-> <<"feed/">> \o placeholderFeed,
               a |-> labelId, T |-> l.editToken],
              "2xx")

\* a createCategory that subscribes the placeholder without looking at the tags
createAfterTagListUnchecked(a, l, resp) ==
  IF ~IsResolved(resp)
  THEN Throw(McpError("InternalError", "FreshRSS tag list failed: ", CaughtDetail(resp)))
  ELSE Step("create", [fn |-> "createCategory"],
            <<placeholderSubscribe(l, labelOf(a.category_name))>>, NoResult)

\* a createCategory that asks for the tag list again when the request failed
createAfterTagListRetry(a, l, resp) ==
  IF ~IsResolved(resp)
  THEN Step("taglist", l, <<tagListRequest(l.auth)>>, NoResult)
  ELSE IF categoryExists(tagsOf(resp.data), labelOf(a.category_name))
  THEN Return([created |-> FALSE, message |-> "already exists"])
  ELSE Step("create", [fn |-> "createCategory"],
            <<placeholderSubscribe(l, labelOf(a.category_name))>>, NoResult)

\* lines 302-330: the tag list arrived; nothing to do if the label is in it
createCategory_afterTagList(a, l, resp) ==
  IF ~IsResolved(resp)
  THEN Throw(McpError("InternalError", "FreshRSS tag list failed: ", CaughtDetail(resp)))
  ELSE IF categoryExists(tagsOf(resp.data), labelOf(a.category_name))
  THEN Return([created |-> FALSE, message |-> "already exists"])
  ELSE Step("create", [fn |-> "createCategory"],
            <<placeholderSubscribe(l, labelOf(a.category_name))>>, NoResult)

\* a createCategory that reports the category created whatever the response
createAfterEditUnchecked(resp) == Return([created |-> TRUE, message |-> "created"])

\* lines 331-338: the placeholder subscription came back
createCategory_afterEdit(resp) ==
  IF ~IsResolved(resp)
  THEN Throw(McpError("InternalError", "FreshRSS create category failed: ",
                      CaughtDetail(resp)))
  ELSE Return([created |-> TRUE, message |-> "created"])

-----------------------------------------------------------------------------
(* FreshRSSClient.unsubscribeFeed *)

\* lines 347-360: the unsubscribe request
unsubscribeFeed_afterSession(a, session) ==
  Step("unsubscribe", [fn |-> "unsubscribeFeed"],
       <<editRequest(session.auth,
                     [ac |-> "unsubscribe", s |-> <<"feed/">> \o a.feed_id,
                      T |-> session.editToken],
                     "2xx")>>,
       NoResult)

\* an unsubscribeFeed that does not look at how the request ended
unsubscribeAfterEditIgnoring(resp) == Return([void |-> TRUE])

\* lines 361-367: nothing is returned
unsubscribeFeed_afterEdit(resp) ==
  IF ~IsResolved(resp)
  THEN Throw(McpError("InternalError", "FreshRSS unsubscribe failed: ", CaughtDetail(resp)))
  ELSE Return([void |-> TRUE])

\* the sessions earlier calls have obtained, as a cache would hold them
CachedSessions ==
  {session_afterToken([auth |-> AuthOfMatch(StringOf(recv[p][1].data))], recv[p][2]) :
     p \in {q \in Ops : Len(recv[q]) >= 2}}

\* a client that keeps the edit token in a field all calls share
afterSessionSharedToken(t, a, session) ==
  LET shared == IF \E c \in CachedSessions : c.ok
                THEN [session EXCEPT
                        !.editToken = (CHOOSE c \in CachedSessions : c.ok).editToken]
                ELSE session
  IN  IF t = "subscribe_feed" THEN subscribeFeed_afterSession(a, shared)
      ELSE IF t = "create_category" THEN createCategory_afterSession(a, shared)
      ELSE unsubscribeFeed_afterSession(a, shared)

\* the method goes on with its session: the code after getGReaderAuthAndToken()
afterSession(t, a, session) ==
  IF t = "subscribe_feed" THEN subscribeFeed_afterSession(a, session)
  ELSE IF t = "create_category" THEN createCategory_afterSession(a, session)
  ELSE unsubscribeFeed_afterSession(a, session)

\* a client that keeps a session and uses it again instead of logging in
sessionStartCached(t, a) ==
  IF \E c \in CachedSessions : c.ok
  THEN afterSession(t, a, CHOOSE c \in CachedSessions : c.ok)
  ELSE Step("login", [fn |-> t], <<loginRequest>>, NoResult)

\* a session method up to its first await: the login request, on every call
session_start(t, a) == Step("login", [fn |-> t], <<loginRequest>>, NoResult)

-----------------------------------------------------------------------------
(* The tool-call handler (server.setRequestHandler(CallToolRequestSchema)) *)

\* the catch of the handler: an McpError passes, anything else is wrapped
HandlerCatch(e) ==
  IF e.class = "McpError" THEN e ELSE McpError("InternalError", "", e)

\* case "subscribe_feed": success is false if the record has an error that counts as true
subscribeToolResult(subResult) ==
  IF Has(subResult, "error") /\ Truthy(subResult.error)
  THEN [success |-> FALSE, error |-> subResult.error]
  ELSE [success |-> TRUE] @@ subResult

\* what the handler of tool t makes of the outcome of the client method
CallToolResult(t, a, out) ==
  IF out.kind = "throw" THEN Thrown(HandlerCatch(out.error))
  ELSE IF t = "get_feed_items" THEN Returned(filterFeedItems(a.feed_id, out.value))
  ELSE IF t = "subscribe_feed" THEN Returned(subscribeToolResult(out.value))
  ELSE IF t = "unsubscribe_feed" THEN Returned([text |-> "Successfully unsubscribed"])
  ELSE IF t \in {"mark_item_read", "mark_item_unread", "mark_feed_read"}
  THEN Returned([text |-> "Successfully marked"])
  ELSE Returned(out.value)

-----------------------------------------------------------------------------
(* The Fever service, as the client meets it *)

\* the id lists the service reports: short ones, and ones around the batch limits
IdCounts == {n \in 0..MaxIds : n <= 3 \/ n % BatchSize <= 1}

IdList(n) == [i \in 1..n |-> <<ToString(i)>>]

\* "1,2,...,n"
CleanIds(n) == Join(IdList(n), ",")

\* " 1 ,, 2 ,," ...: padded ids and empty pieces
MessyIds(n) ==
  IF n = 0 THEN <<" ", ",", " ">>
  ELSE Flatten([i \in 1..n |-> <<" ", ToString(i), " ", ",", ",">>])

FeverIdsData ==
  {[api_version |-> 3, auth |-> 1, last_refreshed_on_time |-> 5,
    unread_item_ids |-> s] : s \in {CleanIds(n) : n \in IdCounts}}
  \cup {[api_version |-> 3, auth |-> 1, last_refreshed_on_time |-> 5,
         unread_item_ids |-> MessyIds(n)] : n \in {0, 2, BatchSize + 1}}
  \cup {[api_version |-> 3, auth |-> 1, last_refreshed_on_time |-> 5],
        [api_version |-> 3, unread_item_ids |-> CleanIds(2)]}

\* the items the service sends for a with_ids request: is_read as the shape says
ItemsFor(withIds, shape) ==
  LET ids == Split(withIds, ",")
  IN  [i \in 1..Len(ids) |->
         [id |-> ids[i], feed_id |-> 1,
          is_read |-> IF shape = "mixed" THEN (i + 1) % 2 ELSE 0]]

FeverItemsData(req) ==
  {[api_version |-> 3, auth |-> 0, last_refreshed_on_time |-> 6,
    total_items |-> 9,
    items |-> Arr(ItemsFor(req.data.with_ids, shape))] : shape \in {"unread", "mixed"}}
  \cup {[api_version |-> 3, auth |-> 0, last_refreshed_on_time |-> 6],
        [api_version |-> 3, auth |-> 0, last_refreshed_on_time |-> 6,
         items |-> [object |-> TRUE]]}

\* a call that fails: no response, a 5xx with or without an error field, and a
\* 2xx body without the version marker
FeverFailures ==
  {[kind |-> "error", message |-> "Network Error"],
   [kind |-> "response", status |-> 500, data |-> [error |-> "upstream"]],
   [kind |-> "response", status |-> 200, data |-> [auth |-> 0]]}

Ok200(data) == [kind |-> "response", status |-> 200, data |-> data]

-----------------------------------------------------------------------------
(* State changes shared by the actions *)

Idle(o) == pc[o] = "idle"

\* the requests of a step leave, numbered after those the invocation sent before
Sending(o, st) ==
  {[op |-> o, seq |-> Len(sent[o]) + i, req |-> st.send[i]] : i \in 1..Len(st.send)}

Outcome(t, a, st) ==
  IF st.out.kind = "none" THEN [method |-> NoResult, tool |-> NoResult]
  ELSE [method |-> st.out, tool |-> CallToolResult(t, a, st.out)]

\* a tool call arrives and runs to its first await
Begin(o, t, a, st) ==
  /\ Idle(o)
  /\ pc' = [pc EXCEPT ![o] = st.pc]
  /\ tool' = [tool EXCEPT ![o] = t]
  /\ args' = [args EXCEPT ![o] = a]
  /\ loc' = [loc EXCEPT ![o] = st.loc]
  /\ sent' = [sent EXCEPT ![o] = @ \o st.send]
  /\ outstanding' = outstanding \cup Sending(o, st)
  /\ result' = [result EXCEPT ![o] = Outcome(t, a, st)]
  /\ UNCHANGED <<inbox, recv, tags, issued, chunk>>

\* the awaited response m is taken from the inbox and the code runs to its next await
Continue(o, m, st) ==
  /\ pc' = [pc EXCEPT ![o] = st.pc]
  /\ loc' = [loc EXCEPT ![o] = st.loc]
  /\ sent' = [sent EXCEPT ![o] = @ \o st.send]
  /\ outstanding' = outstanding \cup Sending(o, st)
  /\ inbox' = inbox \ {m}
  /\ recv' = [recv EXCEPT ![o] = Append(@, m.resp)]
  /\ result' = [result EXCEPT ![o] = Outcome(tool[o], args[o], st)]
  /\ UNCHANGED <<tool, args, tags, issued, chunk>>

\* the response the invocation is waiting for: that of the request it sent last
Awaited(o, m) == m \in inbox /\ m.op = o /\ m.seq = Len(sent[o])

\* the service answers request m with resp
Answer(m, resp) ==
  /\ outstanding' = outstanding \ {m}
  /\ inbox' = inbox \cup {[op |-> m.op, seq |-> m.seq, resp |-> resp]}
  /\ UNCHANGED <<pc, tool, args, loc, sent, recv, result, chunk>>

-----------------------------------------------------------------------------
(* Actions: the get_unread tool *)

NoArgs == [none |-> TRUE]

\* case "get_unread": client.getUnreadItems() up to its first await
CallGetUnread(o) ==
  /\ Idle(o)
  /\ Begin(o, "get_unread", NoArgs, getUnreadItems_start)

GetUnreadAfterIds(o) ==
  \E m \in inbox :
    /\ Awaited(o, m) /\ pc[o] = "ids"
    /\ Continue(o, m, getUnreadItems_afterIds(m.resp))

GetUnreadAfterItems(o) ==
  \E m \in inbox :
    /\ Awaited(o, m) /\ pc[o] = "items"
    /\ Continue(o, m, getUnreadItems_afterItems(loc[o], m.resp))

\* the service answers an unread_item_ids request
FeverAnswerIds ==
  \E m \in outstanding :
    /\ m.req.api = "fever" /\ Has(m.req.data, "unread_item_ids")
    /\ \E resp \in {Ok200(d) : d \in FeverIdsData} \cup FeverFailures : Answer(m, resp)
    /\ UNCHANGED <<tags, issued>>

\* the service answers an items request that names the ids
FeverAnswerItems ==
  \E m \in outstanding :
    /\ m.req.api = "fever" /\ Has(m.req.data, "with_ids")
    /\ \E resp \in {Ok200(d) : d \in FeverItemsData(m.req)} \cup FeverFailures :
         Answer(m, resp)
    /\ UNCHANGED <<tags, issued>>

-----------------------------------------------------------------------------
(* Specifications *)

IdleInit ==
  /\ pc = [o \in Ops |-> "idle"]
  /\ tool = [o \in Ops |-> "none"]
  /\ args = [o \in Ops |-> NoArgs]
  /\ loc = [o \in Ops |-> [fn |-> "none"]]
  /\ outstanding = {}
  /\ inbox = {}
  /\ sent = [o \in Ops |-> <<>>]
  /\ recv = [o \in Ops |-> <<>>]
  /\ result = [o \in Ops |-> [method |-> NoResult, tool |-> NoResult]]
  /\ tags = {}
  /\ issued = <<>>

NoChunk == [arr |-> <<>>, size |-> 0, out |-> <<>>, done |-> FALSE]

\* one get_unread call at a time (spec.md section 5: one operation per caller)
UnreadCallers == {1}

InitUnread == IdleInit /\ chunk = NoChunk

NextUnread ==
  \/ \E o \in UnreadCallers : CallGetUnread(o)
  \/ \E o \in UnreadCallers : GetUnreadAfterIds(o)
  \/ \E o \in UnreadCallers : GetUnreadAfterItems(o)
  \/ FeverAnswerIds
  \/ FeverAnswerItems

SpecUnread == InitUnread /\ [][NextUnread]_vars

\* chunkArray on its own: every id list up to MaxIds, chunked by the batch size
InitChunk ==
  /\ IdleInit
  /\ \E n \in 0..MaxIds, rep \in {1, 2} :
       chunk = [arr |-> [i \in 1..n |-> <<ToString(1 + (i - 1) \div rep)>>],
                size |-> BatchSize, out |-> <<>>, done |-> FALSE]

ApplyChunk ==
  /\ ~chunk.done
  /\ chunk' = [chunk EXCEPT !.out = chunkArray(chunk.arr, chunk.size), !.done = TRUE]
  /\ UNCHANGED <<pc, tool, args, loc, outstanding, inbox, sent, recv, result,
                 tags, issued>>

NextChunk == ApplyChunk

SpecChunk == InitChunk /\ [][NextChunk]_vars

-----------------------------------------------------------------------------
(* The get_feed_items tool: inputs, service, actions *)

\* the feeds the service holds items of
Feeds == {4, 42, 43}

\* the feed_id arguments: the text given, and the feeds that text names
FeedIdArgs ==
  {[feed_id |-> <<"4", "2">>, names |-> {42}],
   [feed_id |-> <<"4", "3">>, names |-> {43}],
   [feed_id |-> <<"4">>, names |-> {4}],
   [feed_id |-> <<" ", "4", "2">>, names |-> {42}],
   [feed_id |-> <<"0", "4", "2">>, names |-> {42}],
   [feed_id |-> <<"x">>, names |-> {}]}

\* the item lists of a raw response: any feeds, whatever feed was asked for
RECURSIVE FeedLists(_)
FeedLists(n) ==
  IF n = 0 THEN {<<>>}
  ELSE FeedLists(n - 1) \cup
       {Append(fs, f) : fs \in {l \in FeedLists(n - 1) : Len(l) = n - 1}, f \in Feeds}

ItemsOfFeeds(fs) ==
  [i \in 1..Len(fs) |-> [id |-> <<ToString(i)>>, feed_id |-> fs[i], is_read |-> 0]]

FeverFeedData ==
  {[api_version |-> 3, auth |-> 1, last_refreshed_on_time |-> 5, total_items |-> 9,
    items |-> Arr(ItemsOfFeeds(fs))] : fs \in FeedLists(MaxFeedItems)}
  \cup {[api_version |-> 3, auth |-> 1, last_refreshed_on_time |-> 5,
         items |-> Arr(ItemsOfFeeds(fs))] : fs \in FeedLists(MaxFeedItems)}
  \cup {[api_version |-> 3, auth |-> 1, last_refreshed_on_time |-> 5],
        [api_version |-> 3, auth |-> 1, last_refreshed_on_time |-> 5, total_items |-> 9,
         items |-> [object |-> TRUE]]}

\* case "get_feed_items": client.getFeedItems(feed_id) up to its await
CallGetFeedItems(o) ==
  \E a \in FeedIdArgs :
    /\ Idle(o)
    /\ Begin(o, "get_feed_items", a, getFeedItems_start(a.feed_id))

GetFeedItemsAfter(o) ==
  \E m \in inbox :
    /\ Awaited(o, m) /\ pc[o] = "feed"
    /\ Continue(o, m, getFeedItems_after(m.resp))

\* the service answers an items request that names a feed
FeverAnswerFeed ==
  \E m \in outstanding :
    /\ m.req.api = "fever" /\ Has(m.req.data, "feed_ids")
    /\ \E resp \in {Ok200(d) : d \in FeverFeedData} \cup FeverFailures : Answer(m, resp)
    /\ UNCHANGED <<tags, issued>>

FeedCallers == {1}

InitFeed == IdleInit /\ chunk = NoChunk

NextFeed ==
  \/ \E o \in FeedCallers : CallGetFeedItems(o)
  \/ \E o \in FeedCallers : GetFeedItemsAfter(o)
  \/ FeverAnswerFeed

SpecFeed == InitFeed /\ [][NextFeed]_vars

-----------------------------------------------------------------------------
(* The Google Reader service, as the client meets it *)

\* the auth token of the j-th login and the edit token that goes with it
AuthTok(j) == <<"A", ToString(j)>>

EditTok(j) == <<"T", ToString(j)>>

\* the logins whose auth token a request presents
LoginsOf(auth) == {j \in 1..Len(issued) : AuthTok(j) = auth}

Unauthorized == [kind |-> "response", status |-> 401, data |-> Str(<<"Unauthorized">>)]

NetworkError == [kind |-> "error", message |-> "Network Error"]

\* the body of a successful login: SID, LSID and Auth lines
LoginBody(j) ==
  Str(<<"SID=", "s", "\n", "LSID=", "null", "\n", "Auth=">> \o AuthTok(j) \o <<"\n">>)

\* a 200 whose body has no Auth line
LoginWithoutAuth == Ok200(Str(<<"SID=", "s", "\n">>))

\* the body of the token endpoint: the token and a line end
TokenBody(j) == Str(EditTok(j) \o <<"\n">>)

CategoryNames == <<(<<"A", "I">>), (<<"N", "e", "w", "s">>)>>

Categories == {CategoryNames[i] : i \in 1..Len(CategoryNames)}

\* the tag list of the account: the starred state, then its labels
TagListBody ==
  [tags |-> Arr(<<[id |-> <<"user/-/state/com.google/starred">>]>>
                \o [i \in 1..Len(SelectSeq(CategoryNames, LAMBDA c : c \in tags)) |->
                      [id |-> labelOf(SelectSeq(CategoryNames, LAMBDA c : c \in tags)[i]),
                       type |-> "folder"]])]

\* the session a subscription/edit request presents is one the service issued
ValidEdit(req) ==
  \E j \in LoginsOf(req.auth) : req.data.T = EditTok(j)

\* the tags after the service has carried out a subscription/edit request
TagsAfter(req) ==
  IF req.data.ac = "subscribe" /\ Has(req.data, "a")
  THEN tags \cup {SubSeq(req.data.a, 2, Len(req.data.a))}
  ELSE tags

\* the ways a login fails: refused, lost, or a 200 without an Auth line
LoginFailures == {Unauthorized, NetworkError, LoginWithoutAuth}

\* the ways the token fetch fails: refused, lost, or a 200 with a blank body
TokenFailures == {Unauthorized, NetworkError, Ok200(Str(<<" ", "\n">>))}

\* what the service may answer to a subscription/edit request it carries out
EditDone == {Ok200(Str(<<"O", "K">>))}

\* what it may answer to one it rejects
EditRejected ==
  {[kind |-> "response", status |-> 400, data |-> [error |-> Str(<<"duplicate">>)]]}

\* the bodies and statuses subscribeFeed has to reconcile
SubscribeBodies ==
  {Str(<<"O", "K">>), Str(<<" ", "O", "K", "\n">>), Str(<<"K", "O">>), Str(<<>>),
   [streamId |-> Str(<<"x">>), numResults |-> 1],
   [streamId |-> Str(<<"x">>), feedId |-> Str(<<"y">>), streamName |-> Str(<<"n">>),
    title |-> Str(<<"t">>)],
   [feedId |-> Str(<<"y">>), title |-> Str(<<"t">>), numResults |-> 2],
   [error |-> Str(<<"duplicate">>)],
   [error |-> Str(<<>>), message |-> Str(<<"rejected">>)],
   [message |-> Str(<<"rejected">>)],
   [code |-> 7]}

SubscribeStatuses == {200, 204, 400, 409, 500}

SubscribeResponses ==
  {[kind |-> "response", status |-> st, data |-> b] :
     st \in SubscribeStatuses, b \in SubscribeBodies}
  \cup {NetworkError}

-----------------------------------------------------------------------------
(* Actions: the session tools *)

FeedUrl == <<"https://example.com/feed.xml">>

SubscribeArgs ==
  {[feed_url |-> FeedUrl]} \cup
  {[feed_url |-> FeedUrl, category_name |-> c] : c \in Categories \cup {<<>>}}

\* case "subscribe_feed": client.subscribeFeed up to the login request
CallSubscribeFeed(o, choices) ==
  \E a \in choices :
    /\ Idle(o)
    /\ Begin(o, "subscribe_feed", a, session_start("subscribe_feed", a))

\* case "create_category": client.createCategory up to the login request
CallCreateCategory(o, choices) ==
  \E c \in choices :
    /\ Idle(o)
    /\ Begin(o, "create_category", [category_name |-> c],
             session_start("create_category", [category_name |-> c]))

\* case "unsubscribe_feed": client.unsubscribeFeed up to the login request
CallUnsubscribeFeed(o) ==
  /\ Idle(o)
  /\ Begin(o, "unsubscribe_feed", [feed_id |-> <<"4", "2">>],
           session_start("unsubscribe_feed", [feed_id |-> <<"4", "2">>]))

SessionAfterLogin(o) ==
  \E m \in inbox :
    /\ Awaited(o, m) /\ pc[o] = "login"
    /\ Continue(o, m, session_afterLogin(loc[o], m.resp))

\* getGReaderAuthAndToken returns to its caller, which goes on without an await
SessionAfterToken(o) ==
  \E m \in inbox :
    /\ Awaited(o, m) /\ pc[o] = "token"
    /\ LET session == session_afterToken(loc[o], m.resp)
       IN  Continue(o, m, IF session.ok THEN afterSession(tool[o], args[o], session)
                          ELSE Throw(session.error))

SubscribeAfterEdit(o) ==
  \E m \in inbox :
    /\ Awaited(o, m) /\ pc[o] = "subscribe"
    /\ Continue(o, m, subscribeFeed_afterEdit(m.resp))

CreateCategoryAfterTagList(o) ==
  \E m \in inbox :
    /\ Awaited(o, m) /\ pc[o] = "taglist"
    /\ Continue(o, m, createCategory_afterTagList(args[o], loc[o], m.resp))

CreateCategoryAfterEdit(o) ==
  \E m \in inbox :
    /\ Awaited(o, m) /\ pc[o] = "create"
    /\ Continue(o, m, createCategory_afterEdit(m.resp))

UnsubscribeAfterEdit(o) ==
  \E m \in inbox :
    /\ Awaited(o, m) /\ pc[o] = "unsubscribe"
    /\ Continue(o, m, unsubscribeFeed_afterEdit(m.resp))

\* the service logs the account in and issues a fresh auth token
GReaderLogin ==
  \E m \in outstanding :
    /\ m.req.url = "/accounts/ClientLogin"
    /\ issued' = Append(issued, m.op)
    /\ Answer(m, Ok200(LoginBody(Len(issued) + 1)))
    /\ UNCHANGED tags

\* the service refuses the login, or answers without an Auth line
GReaderLoginFails(responses) ==
  \E m \in outstanding :
    /\ m.req.url = "/accounts/ClientLogin"
    /\ \E resp \in responses : Answer(m, resp)
    /\ UNCHANGED <<tags, issued>>

\* the service hands out the edit token of the session the request presents
GReaderToken ==
  \E m \in outstanding :
    /\ m.req.url = "/reader/api/0/token"
    /\ \E j \in LoginsOf(m.req.auth) : Answer(m, Ok200(TokenBody(j)))
    /\ UNCHANGED <<tags, issued>>

GReaderTokenFails(responses) ==
  \E m \in outstanding :
    /\ m.req.url = "/reader/api/0/token"
    /\ \E resp \in responses : Answer(m, resp)
    /\ UNCHANGED <<tags, issued>>

GReaderTagList(failures) ==
  \E m \in outstanding :
    /\ m.req.url = "/reader/api/0/tag/list"
    /\ \E resp \in {Ok200(TagListBody)} \cup failures : Answer(m, resp)
    /\ UNCHANGED <<tags, issued>>

\* the service carries out a subscription/edit request
GReaderEdit(responses) ==
  \E m \in outstanding :
    /\ m.req.url = "/reader/api/0/subscription/edit"
    /\ ValidEdit(m.req)
    /\ tags' = TagsAfter(m.req)
    /\ \E resp \in {r \in responses : r.kind = "response" /\ r.status = 200} :
         Answer(m, resp)
    /\ UNCHANGED issued

\* the service rejects a subscription/edit request, or the request is lost
GReaderEditFails(responses) ==
  \E m \in outstanding :
    /\ m.req.url = "/reader/api/0/subscription/edit"
    /\ \E resp \in {r \in responses : r.kind = "error" \/ r.status # 200} :
         Answer(m, resp)
    /\ UNCHANGED <<tags, issued>>

InitSession ==
  /\ pc = [o \in Ops |-> "idle"]
  /\ tool = [o \in Ops |-> "none"]
  /\ args = [o \in Ops |-> NoArgs]
  /\ loc = [o \in Ops |-> [fn |-> "none"]]
  /\ outstanding = {}
  /\ inbox = {}
  /\ sent = [o \in Ops |-> <<>>]
  /\ recv = [o \in Ops |-> <<>>]
  /\ result = [o \in Ops |-> [method |-> NoResult, tool |-> NoResult]]
  /\ tags \in SUBSET Categories
  /\ issued = <<>>
  /\ chunk = NoChunk

\* any session tools, their network steps interleaved
NextSession ==
  \/ \E o \in Ops : CallSubscribeFeed(o, {[feed_url |-> FeedUrl, category_name |-> CategoryNames[1]]})
  \/ \E o \in Ops : CallCreateCategory(o, {CategoryNames[1]})
  \/ \E o \in Ops : CallUnsubscribeFeed(o)
  \/ \E o \in Ops : SessionAfterLogin(o)
  \/ \E o \in Ops : SessionAfterToken(o)
  \/ \E o \in Ops : SubscribeAfterEdit(o)
  \/ \E o \in Ops : CreateCategoryAfterTagList(o)
  \/ \E o \in Ops : CreateCategoryAfterEdit(o)
  \/ \E o \in Ops : UnsubscribeAfterEdit(o)
  \/ GReaderLogin
  \/ GReaderLoginFails({Unauthorized})
  \/ GReaderToken
  \/ GReaderTokenFails({Unauthorized})
  \/ GReaderTagList({Unauthorized})
  \/ GReaderEdit(EditDone \cup EditRejected)
  \/ GReaderEditFails(EditDone \cup EditRejected)

SpecSession == InitSession /\ [][NextSession]_vars

SubscribeCallers == {1}

\* one subscribe_feed call, against every response subscribeFeed has to reconcile
NextSubscribe ==
  \/ \E o \in SubscribeCallers : CallSubscribeFeed(o, SubscribeArgs)
  \/ \E o \in SubscribeCallers : SessionAfterLogin(o)
  \/ \E o \in SubscribeCallers : SessionAfterToken(o)
  \/ \E o \in SubscribeCallers : SubscribeAfterEdit(o)
  \/ GReaderLogin
  \/ GReaderLoginFails(LoginFailures)
  \/ GReaderToken
  \/ GReaderTokenFails(TokenFailures)
  \/ GReaderEdit(SubscribeResponses)
  \/ GReaderEditFails(SubscribeResponses)

SpecSubscribe == InitSession /\ [][NextSubscribe]_vars

-----------------------------------------------------------------------------
(* The other Fever methods: getSubscriptions, getFeedGroups, markAsRead,   *)
(* markAsUnread, markFeedAsRead, getItems: one request() each              *)

SimpleTools ==
  {"list_feeds", "get_feed_groups", "mark_item_read", "mark_item_unread",
   "mark_feed_read", "get_items"}

\* the data each method hands to request(); now is Math.floor(Date.now() / 1000)
simpleRequest(t, a, now) ==
  IF t = "list_feeds" THEN FeverReq([feeds |-> <<>>])
  ELSE IF t = "get_feed_groups" THEN FeverReq([groups |-> <<>>])
  ELSE IF t = "mark_item_read"
  THEN FeverReq([mark |-> "item", id |-> a.item_id, as |-> "read"])
  ELSE IF t = "mark_item_unread"
  THEN FeverReq([mark |-> "item", id |-> a.item_id, as |-> "unread"])
  ELSE IF t = "mark_feed_read"
  THEN FeverReq([mark |-> "feed", id |-> a.feed_id, as |-> "read", before |-> now])
  ELSE FeverReq([items |-> <<>>, with_ids |-> Join(a.item_ids, ",")])

simple_start(t, a, now) == Step("simple", [fn |-> t], <<simpleRequest(t, a, now)>>, NoResult)

\* return this.request(...): the data, or what request() throws
simple_after(resp) ==
  LET r == request(resp) IN IF ~r.ok THEN Throw(r.error) ELSE Return(r.data)

\* the arguments of each tool
SimpleArgs(t) ==
  IF t \in {"mark_item_read", "mark_item_unread"} THEN {[item_id |-> <<"7">>]}
  ELSE IF t = "mark_feed_read" THEN {[feed_id |-> <<"4", "2">>]}
  ELSE IF t = "get_items" THEN {[item_ids |-> IdList(n)] : n \in 0..2}
  ELSE {NoArgs}

\* the seconds the clock may show when markFeedAsRead runs
Clock == {1700000000, 1700000001}

CallSimple(o) ==
  \E t \in SimpleTools : \E a \in SimpleArgs(t) : \E now \in Clock :
    /\ Idle(o)
    /\ Begin(o, t, a, simple_start(t, a, now))

SimpleAfter(o) ==
  \E m \in inbox :
    /\ Awaited(o, m) /\ pc[o] = "simple"
    /\ Continue(o, m, simple_after(m.resp))

\* what the service sends for feeds, groups and mark requests
FeverSimpleData(req) ==
  IF Has(req.data, "feeds")
  THEN {[api_version |-> 3, auth |-> 1, last_refreshed_on_time |-> 5,
         feeds |-> Arr(<<[id |-> 42, title |-> "t"]>>)]}
  ELSE IF Has(req.data, "groups")
  THEN {[api_version |-> 3, auth |-> 1, last_refreshed_on_time |-> 5,
         groups |-> Arr(<<>>)]}
  ELSE {[api_version |-> 3, auth |-> 1, last_refreshed_on_time |-> 5],
        [api_version |-> 3, auth |-> 0]}

\* answers with status 200 that are not Fever responses: no version marker
FeverUnversioned ==
  {Ok200([auth |-> 0]), Ok200(Empty), Ok200(Str(<<"<html>">>))}

\* the service answers a feeds, groups or mark request
FeverAnswerSimple ==
  \E m \in outstanding :
    /\ m.req.api = "fever"
    /\ Has(m.req.data, "feeds") \/ Has(m.req.data, "groups") \/ Has(m.req.data, "mark")
    /\ \E resp \in {Ok200(d) : d \in FeverSimpleData(m.req)} \cup FeverFailures
                   \cup FeverUnversioned :
         Answer(m, resp)
    /\ UNCHANGED <<tags, issued>>

-----------------------------------------------------------------------------
(* One call of any tool, against every answer of the services *)

\* the layouts of a login body that holds the auth token of login j
LoginLayouts(j) ==
  {LoginBody(j),
   Str(<<"Auth=">> \o AuthTok(j)),
   Str(<<"Auth=">> \o AuthTok(j) \o <<" ", "x", "\n", "Auth=", "B", "\n">>),
   Str(<<"SID=", "s", "\n", "Auth=", "\n", "Auth=">> \o AuthTok(j) \o <<"\n">>)}

\* answers with status 200 whose body holds no Auth=<token>
LoginsWithoutMarker ==
  {LoginWithoutAuth, Ok200(Str(<<"Auth=", "\n">>)), Ok200(Str(<<"Auth=">>)),
   Ok200(Str(<<>>)), Ok200(Str(<<"auth=", "A", "1">>)), Ok200([error |-> Str(<<"bad">>)])}

\* the service logs the account in; the body holds the token in one of the layouts
GReaderLoginLaidOut ==
  \E m \in outstanding :
    /\ m.req.url = "/accounts/ClientLogin"
    /\ issued' = Append(issued, m.op)
    /\ \E body \in LoginLayouts(Len(issued) + 1) : Answer(m, Ok200(body))
    /\ UNCHANGED tags

\* token answers that are no token: blank text, no text, a structured body
TokensBlank ==
  {Ok200(Str(<<" ", "\n">>)), Ok200(Str(<<>>)), Ok200(Str(<<"\n", " ", "\n">>))}

TokenAnswers == TokenFailures \cup TokensBlank \cup {Ok200([token |-> Str(<<"T">>)])}

\* what may come back for a tag list besides the list: a refusal, nothing, no tags field
TagListAnswers == {Unauthorized, NetworkError, Ok200(Empty)}

EditAnswers == SubscribeResponses \cup {Unauthorized}

ToolCallers == {1}

\* one call of any tool
NextTools ==
  \/ \E o \in ToolCallers : CallGetUnread(o)
  \/ \E o \in ToolCallers : GetUnreadAfterIds(o)
  \/ \E o \in ToolCallers : GetUnreadAfterItems(o)
  \/ \E o \in ToolCallers : CallGetFeedItems(o)
  \/ \E o \in ToolCallers : GetFeedItemsAfter(o)
  \/ \E o \in ToolCallers : CallSimple(o)
  \/ \E o \in ToolCallers : SimpleAfter(o)
  \/ \E o \in ToolCallers : CallSubscribeFeed(o, SubscribeArgs)
  \/ \E o \in ToolCallers : CallCreateCategory(o, Categories)
  \/ \E o \in ToolCallers : CallUnsubscribeFeed(o)
  \/ \E o \in ToolCallers : SessionAfterLogin(o)
  \/ \E o \in ToolCallers : SessionAfterToken(o)
  \/ \E o \in ToolCallers : SubscribeAfterEdit(o)
  \/ \E o \in ToolCallers : CreateCategoryAfterTagList(o)
  \/ \E o \in ToolCallers : CreateCategoryAfterEdit(o)
  \/ \E o \in ToolCallers : UnsubscribeAfterEdit(o)
  \/ FeverAnswerIds
  \/ FeverAnswerItems
  \/ FeverAnswerFeed
  \/ FeverAnswerSimple
  \/ GReaderLoginLaidOut
  \/ GReaderLoginFails(LoginFailures \cup LoginsWithoutMarker)
  \/ GReaderToken
  \/ GReaderTokenFails(TokenAnswers)
  \/ GReaderTagList(TagListAnswers)
  \/ GReaderEdit(EditAnswers)
  \/ GReaderEditFails(EditAnswers)

SpecTools == InitSession /\ [][NextTools]_vars

\* the event loop resumes a call whose awaited response has arrived
ToolSteps ==
  \E o \in ToolCallers :
    \/ GetUnreadAfterIds(o) \/ GetUnreadAfterItems(o) \/ GetFeedItemsAfter(o)
    \/ SimpleAfter(o) \/ SessionAfterLogin(o) \/ SessionAfterToken(o)
    \/ SubscribeAfterEdit(o) \/ CreateCategoryAfterTagList(o)
    \/ CreateCategoryAfterEdit(o) \/ UnsubscribeAfterEdit(o)

\* an issued request receives a response or fails
ServiceAnswers ==
  \/ FeverAnswerIds \/ FeverAnswerItems \/ FeverAnswerFeed \/ FeverAnswerSimple
  \/ GReaderLoginLaidOut \/ GReaderLoginFails(LoginFailures \cup LoginsWithoutMarker)
  \/ GReaderToken \/ GReaderTokenFails(TokenAnswers)
  \/ GReaderTagList(TagListAnswers)
  \/ GReaderEdit(EditAnswers) \/ GReaderEditFails(EditAnswers)

\* ENABLED <<ToolSteps>>_vars as a state predicate: the response a call awaits
\* has arrived
Ready == \E o \in ToolCallers : \E m \in inbox : Awaited(o, m)

\* WF_vars(ToolSteps), written out with Ready for its ENABLED: the event loop
\* does not leave a continuation that is ready waiting for ever
ToolStepsFair == []<>(~Ready) \/ []<><<ToolSteps>>_vars

\* one call of any tool, where no request stays unanswered for ever and the
\* event loop runs every continuation that is ready
SpecToolsLive ==
  InitSession /\ [][NextTools]_vars /\ ToolStepsFair /\ WF_vars(ServiceAnswers)

-----------------------------------------------------------------------------
(* Properties of getUnreadItems and chunkArray *)

IsUnreadCall(o) == tool[o] = "get_unread"

\* the items of the batch responses an invocation received, in the order received
RECURSIVE ReceivedItems(_)
ReceivedItems(resps) ==
  IF resps = <<>> THEN <<>>
  ELSE (IF Has(Head(resps).data, "items") /\ Has(Head(resps).data.items, "array")
        THEN Head(resps).data.items.array ELSE <<>>)
       \o ReceivedItems(Tail(resps))

CopiedFrom(v, d, f) ==
  IF f \in DOMAIN d THEN f \in DOMAIN v /\ v[f] = d[f] ELSE f \notin DOMAIN v

\* C1: a getUnreadItems call that returns, returns exactly the items of its batch
\* responses, in the order received, whose is_read is 0; total_items is their
\* number; api_version, auth and last_refreshed_on_time are those of the
\* unread-id response.
C1_UnreadEnvelope ==
  \A o \in Ops :
    IsUnreadCall(o) /\ result[o].method.kind = "return" =>
      LET v    == result[o].method.value
          got  == ReceivedItems(Tail(recv[o]))
          keep == SelectSeq(got, LAMBDA it : it.is_read = 0)
      IN  /\ v.items = Arr(keep)
          /\ v.total_items = Len(keep)
          /\ \A f \in {"api_version", "auth", "last_refreshed_on_time"} :
               CopiedFrom(v, recv[o][1].data, f)

\* the example of the spec: ids "1,2,3", is_read 0,1,0, result items 1 and 3
C1_Witness ==
  \E o \in Ops :
    /\ IsUnreadCall(o) /\ result[o].method.kind = "return"
    /\ Len(ReceivedItems(Tail(recv[o]))) = 3
    /\ recv[o][1].data = [api_version |-> 3, auth |-> 1, last_refreshed_on_time |-> 5,
                          unread_item_ids |-> <<"1", ",", "2", ",", "3">>]
    /\ Len(recv[o]) = 2
    /\ [i \in 1..3 |-> ReceivedItems(<<recv[o][2]>>)[i].is_read] = <<0, 1, 0>>
    /\ result[o].method.value.total_items = 2
    /\ [i \in 1..2 |-> result[o].method.value.items.array[i].id] = <<(<<"1">>), (<<"3">>)>>

Ceil(n, d) == (n + d - 1) \div d

\* C2: chunkArray(arr, 50) yields batches whose concatenation is arr, each of 1 to
\* 50 elements, ceil(N/50) of them (none for N = 0).
C2_ChunkPartition ==
  chunk.done =>
    /\ Flatten(chunk.out) = chunk.arr
    /\ \A k \in 1..Len(chunk.out) :
         Len(chunk.out[k]) >= 1 /\ Len(chunk.out[k]) <= BatchSize
    /\ Len(chunk.out) = Ceil(Len(chunk.arr), BatchSize)

C2_Witness ==
  /\ chunk.done /\ Len(chunk.arr) = 2 * BatchSize + 1 /\ Len(chunk.out) = 3
  /\ Len(chunk.out[3]) = 1

\* C3: within one getUnreadItems call the requests go out one at a time: a request
\* is sent only once every earlier one has been answered and its response taken,
\* so the call never has two requests outstanding.
C3_Sequential ==
  \A o \in Ops :
    IsUnreadCall(o) =>
      /\ Len(sent[o]) <= Len(recv[o]) + 1
      /\ Cardinality({m \in outstanding : m.op = o}) <= 1

\* the third batch request is out, alone
C3_Witness ==
  \E o \in Ops :
    /\ IsUnreadCall(o) /\ pc[o] = "items" /\ loc[o].k = 3
    /\ Cardinality({m \in outstanding : m.op = o}) = 1

\* a call that did not come back with a usable response
FailedCall(resp) ==
  \/ resp.kind = "error"
  \/ resp.status \notin 200..299
  \/ "api_version" \notin DOMAIN resp.data

\* C4: once the unread-id request or a batch request of getUnreadItems has failed,
\* the call has ended with an error (the method threw, the tool call fails), and
\* it sent no request after the failed one.
C4_FailureAborts ==
  \A o \in Ops :
    IsUnreadCall(o) =>
      \A i \in 1..Len(recv[o]) :
        FailedCall(recv[o][i]) =>
          /\ i = Len(recv[o])
          /\ Len(sent[o]) = i
          /\ pc[o] = "done"
          /\ result[o].method.kind = "throw"
          /\ result[o].tool.kind = "throw"

\* the second batch failed after the first delivered items
C4_Witness ==
  \E o \in Ops :
    /\ IsUnreadCall(o) /\ Len(recv[o]) = 3 /\ FailedCall(recv[o][3])
    /\ ReceivedItems(<<recv[o][2]>>) # <<>>
    /\ pc[o] = "done" /\ result[o].tool.kind = "throw"

-----------------------------------------------------------------------------
(* Properties of the get_feed_items tool *)

IsFeedCall(o) == tool[o] = "get_feed_items"

\* the call came back with a raw response that carries an item array
FeedItemsReturned(o) ==
  /\ IsFeedCall(o) /\ result[o].tool.kind = "return"
  /\ Has(recv[o][1].data, "items") /\ Has(recv[o][1].data.items, "array")

\* the items the tool returns are those of the raw response, in order, whose
\* feed_id is the feed the argument names
OnlyRequestedFeed(o) ==
  result[o].tool.value.items =
    Arr(SelectSeq(recv[o][1].data.items.array, LAMBDA it : it.feed_id \in args[o].names))

\* C10 as claimed: on any raw response with items, get_feed_items returns only the
\* items of the requested feed and a total_items equal to their number.
C10_AlwaysCounted ==
  \A o \in Ops :
    FeedItemsReturned(o) =>
      /\ OnlyRequestedFeed(o)
      /\ Has(result[o].tool.value, "total_items")
      /\ result[o].tool.value.total_items = Len(result[o].tool.value.items.array)

\* C10, amended: get_feed_items returns only the items of the requested feed; if
\* the raw response carries total_items, the returned total_items is the number of
\* items returned, and if it carries none, none is returned.
C10_FeedFilter ==
  \A o \in Ops :
    FeedItemsReturned(o) =>
      /\ OnlyRequestedFeed(o)
      /\ IF Has(recv[o][1].data, "total_items")
         THEN /\ Has(result[o].tool.value, "total_items")
              /\ result[o].tool.value.total_items = Len(result[o].tool.value.items.array)
         ELSE ~Has(result[o].tool.value, "total_items")

\* feed 42 asked for, items of feeds 42 and 43 in the raw response, one item returned
C10_Witness ==
  \E o \in Ops :
    /\ FeedItemsReturned(o)
    /\ args[o].names = {42}
    /\ [i \in 1..Len(recv[o][1].data.items.array) |-> recv[o][1].data.items.array[i].feed_id]
         = <<42, 43>>
    /\ Has(recv[o][1].data, "total_items")
    /\ Len(result[o].tool.value.items.array) = 1
    /\ result[o].tool.value.total_items = 1

-----------------------------------------------------------------------------
(* Properties of the session tools *)

SessionTools == {"subscribe_feed", "create_category", "unsubscribe_feed"}

IsLogin(r) == r.url = "/accounts/ClientLogin"

IsTokenFetch(r) == r.url = "/reader/api/0/token"

IsTagList(r) == r.url = "/reader/api/0/tag/list"

IsEdit(r) == r.url = "/reader/api/0/subscription/edit"

Positions(o, P(_)) == {i \in 1..Len(sent[o]) : P(sent[o][i])}

\* the tag list an invocation of createCategory read, once it has read one
TagListRead(o) ==
  /\ tool[o] = "create_category" /\ Len(recv[o]) >= 3
  /\ recv[o][3].kind = "response" /\ recv[o][3].status \in 200..299

\* the tag list read holds a tag whose id is user/-/label/<name>
LabelListed(o) ==
  /\ "tags" \in DOMAIN recv[o][3].data
  /\ \E i \in 1..Len(recv[o][3].data.tags.array) :
       /\ "id" \in DOMAIN recv[o][3].data.tags.array[i]
       /\ recv[o][3].data.tags.array[i].id = <<"user/-/label/">> \o args[o].category_name

\* C5: a createCategory that read a tag list holding user/-/label/<name> returns
\* created = false and sends no subscription-edit request.
C5_ExistingCategoryNoOp ==
  \A o \in Ops :
    TagListRead(o) /\ LabelListed(o) =>
      /\ result[o].method = Returned([created |-> FALSE, message |-> "already exists"])
      /\ result[o].tool.kind = "return" /\ result[o].tool.value.created = FALSE
      /\ Positions(o, IsEdit) = {}
      /\ Len(sent[o]) = 3

\* created by one call, found by the next call for the same name
C5_Witness ==
  \E o, p \in Ops :
    /\ o # p /\ tool[o] = "create_category" /\ tool[p] = "create_category"
    /\ args[o] = args[p]
    /\ result[o].method.kind = "return" /\ result[o].method.value.created
    /\ TagListRead(p) /\ LabelListed(p)
    /\ result[p].method.kind = "return" /\ ~result[p].method.value.created
    /\ Positions(p, IsEdit) = {}

\* the session of an invocation: the login the service answered it, with its tokens
OwnSession(o, auth, T) ==
  \E j \in 1..Len(issued) : issued[j] = o /\ auth = AuthTok(j) /\ T = EditTok(j)

\* C6: a createCategory that read a tag list without the label sends exactly one
\* subscription-edit request, with ac = subscribe, s = feed/<placeholder>, a = the
\* label and T = the edit token of its session; it returns created = true only
\* once that request has succeeded, and raises if it fails.
C6_CreateBySubscribe ==
  \A o \in Ops :
    TagListRead(o) /\ ~LabelListed(o) =>
      /\ Positions(o, IsEdit) = {4} /\ Len(sent[o]) = 4
      /\ sent[o][4].data.ac = "subscribe"
      /\ sent[o][4].data.s =
           <<"feed/", "https://github.com/FreshRSS/FreshRSS/releases.atom">>
      /\ sent[o][4].data.a = <<"user/-/label/">> \o args[o].category_name
      /\ OwnSession(o, sent[o][4].auth, sent[o][4].data.T)
      /\ Len(recv[o]) < 4 => result[o].method.kind = "none"
      /\ Len(recv[o]) = 4 =>
           IF recv[o][4].kind = "response" /\ recv[o][4].status \in 200..299
           THEN result[o].method.kind = "return" /\ result[o].method.value.created
           ELSE result[o].method.kind = "throw" /\ result[o].tool.kind = "throw"

\* both ends: a creation that succeeded and one whose subscribe request failed
C6_Witness ==
  \E o, p \in Ops :
    /\ TagListRead(o) /\ ~LabelListed(o) /\ Len(recv[o]) = 4
    /\ result[o].method.kind = "return" /\ result[o].method.value.created
    /\ TagListRead(p) /\ ~LabelListed(p) /\ Len(recv[p]) = 4
    /\ result[p].method.kind = "throw"

Succeeded(o) == pc[o] = "done" /\ result[o].method.kind = "return"

\* C7: every session operation sends its own login first and its own token fetch
\* second, and no other login or token fetch; k operations that all succeed have
\* sent k logins and k token fetches; and every auth token and edit token a
\* request carries is one the service issued to that same invocation.
C7_OwnSession ==
  /\ \A o \in Ops :
       tool[o] \in SessionTools =>
         /\ Len(sent[o]) >= 1
         /\ Positions(o, IsLogin) = {1}
         /\ Positions(o, IsTokenFetch) = {2} \cap (1..Len(sent[o]))
         /\ Succeeded(o) => Len(sent[o]) >= 3
         /\ \A i \in 1..Len(sent[o]) :
              "auth" \in DOMAIN sent[o][i] =>
                IF IsEdit(sent[o][i])
                THEN OwnSession(o, sent[o][i].auth, sent[o][i].data.T)
                ELSE \E T \in {EditTok(j) : j \in 1..Len(issued)} :
                       OwnSession(o, sent[o][i].auth, T)
  /\ LET ok == {o \in Ops : tool[o] \in SessionTools /\ Succeeded(o)}
     IN  /\ Cardinality({<<o, i>> \in ok \X (1..4) :
                           i <= Len(sent[o]) /\ IsLogin(sent[o][i])}) = Cardinality(ok)
         /\ Cardinality({<<o, i>> \in ok \X (1..4) :
                           i <= Len(sent[o]) /\ IsTokenFetch(sent[o][i])}) = Cardinality(ok)

\* two operations, one after the other, each with a login of its own
C7_Witness ==
  \E o, p \in Ops :
    /\ o # p /\ Succeeded(o) /\ Succeeded(p)
    /\ tool[o] = "subscribe_feed" /\ tool[p] = "unsubscribe_feed"
    /\ issued = <<o, p>>
    /\ sent[o][3].data.T = EditTok(1) /\ sent[p][3].data.T = EditTok(2)

-----------------------------------------------------------------------------
(* Properties of subscribeFeed *)

\* the subscription-edit response of a subscribe_feed call has arrived and been taken
EditAnswered(o) ==
  /\ tool[o] = "subscribe_feed" /\ Len(recv[o]) = 3 /\ recv[o][3].kind = "response"

NonEmptyField(body, f) == f \in DOMAIN body /\ body[f].str # <<>>

\* C8 as claimed: on a non-2xx status subscribeFeed returns, without throwing, a
\* record whose error is the body if that is a string, else the error or the
\* message field of the body.
C8_ErrorOrMessage ==
  \A o \in Ops :
    EditAnswered(o) /\ recv[o][3].status \notin 200..299 =>
      /\ result[o].method.kind = "return"
      /\ "error" \in DOMAIN result[o].method.value
      /\ IF "str" \in DOMAIN recv[o][3].data
         THEN result[o].method.value.error = recv[o][3].data
         ELSE \E f \in {"error", "message"} \cap DOMAIN recv[o][3].data :
                result[o].method.value.error = recv[o][3].data[f]

\* C8, amended: on a non-2xx status subscribeFeed returns, without throwing, a
\* record that holds only an error: the body if that is a string, else the error
\* field of the body if it is not empty, else its message field if that is not
\* empty, else the JSON text of the body.
C8_SoftFailure ==
  \A o \in Ops :
    EditAnswered(o) /\ recv[o][3].status \notin 200..299 =>
      LET body == recv[o][3].data
      IN  /\ result[o].method.kind = "return"
          /\ result[o].tool.kind = "return"
          /\ DOMAIN result[o].method.value = {"error"}
          /\ result[o].method.value.error =
               IF "str" \in DOMAIN body THEN body
               ELSE IF NonEmptyField(body, "error") THEN body.error
               ELSE IF NonEmptyField(body, "message") THEN body.message
               ELSE [json |-> body]

\* the example of the spec: a non-success status with {error: "duplicate"}
C8_Witness ==
  \E o \in Ops :
    /\ EditAnswered(o) /\ recv[o][3].status = 409
    /\ recv[o][3].data = [error |-> [str |-> <<"duplicate">>]]
    /\ result[o].method = Returned([error |-> [str |-> <<"duplicate">>]])

\* field f of the record is field g of the body, else field h, else undefined
FromBody(v, f, body, g, h) ==
  IF g \in DOMAIN body THEN f \in DOMAIN v /\ v[f] = body[g]
  ELSE IF h \in DOMAIN body THEN f \in DOMAIN v /\ v[f] = body[h]
  ELSE f \notin DOMAIN v

\* C9: on a status 200, a plain-text body that is OK once trimmed yields a record
\* without error, feedId or title, which the tool reports as a success; a
\* structured body yields feedId = streamId (else feedId), title = streamName
\* (else title), and numResults and error as in the body.
C9_SuccessShapes ==
  \A o \in Ops :
    EditAnswered(o) /\ recv[o][3].status = 200 =>
      LET body == recv[o][3].data
          v    == result[o].method.value
      IN  /\ result[o].method.kind = "return"
          /\ ("str" \in DOMAIN body /\ body.str \in {<<"O", "K">>, <<" ", "O", "K", "\n">>}) =>
               /\ {"error", "feedId", "title"} \cap DOMAIN v = {}
               /\ result[o].tool.kind = "return" /\ result[o].tool.value.success
          /\ "str" \notin DOMAIN body =>
               /\ FromBody(v, "feedId", body, "streamId", "feedId")
               /\ FromBody(v, "title", body, "streamName", "title")
               /\ FromBody(v, "numResults", body, "numResults", "numResults")
               /\ FromBody(v, "error", body, "error", "error")

\* the example of the spec: {streamId: "x", numResults: 1}
C9_Witness ==
  \E o \in Ops :
    /\ EditAnswered(o) /\ recv[o][3].status = 200
    /\ recv[o][3].data = [streamId |-> [str |-> <<"x">>], numResults |-> 1]
    /\ result[o].method = Returned([feedId |-> [str |-> <<"x">>], numResults |-> 1])

-----------------------------------------------------------------------------
(* Properties of session establishment *)

\* the text of a body: that of a string, or what String() makes of an object
BodyText(data) == IF "str" \in DOMAIN data THEN data.str ELSE <<"[object Object]">>

\* the places of a text where Auth= is followed by a token
Markers(text) ==
  {i \in 1..(Len(text) - 1) : text[i] = "Auth=" /\ text[i + 1] \notin {" ", "\n"}}

\* the run of non-whitespace symbols that follows place i
RunAfter(text, i) ==
  LET e == CHOOSE j \in (i + 1)..Len(text) :
             /\ \A k \in (i + 1)..j : text[k] \notin {" ", "\n"}
             /\ j = Len(text) \/ text[j + 1] \in {" ", "\n"}
  IN  SubSeq(text, i + 1, e)

TwoHundreds(resp) == resp.kind = "response" /\ resp.status \in 200..299

LoginAnswered(o) ==
  tool[o] \in SessionTools /\ Len(recv[o]) >= 1 /\ TwoHundreds(recv[o][1])

InternalError(out) ==
  out.kind = "throw" /\ out.error.class = "McpError" /\ out.error.code = "InternalError"

\* C11: a login answered with a body without Auth=<token> ends the call with an
\* internal error, and no request follows the login; with the marker present the
\* token fetch, and every later request, carries as auth token the run of
\* non-whitespace symbols after the first Auth=.
C11_AuthMarker ==
  \A o \in Ops :
    LoginAnswered(o) =>
      LET text == BodyText(recv[o][1].data)
      IN  IF Markers(text) = {}
          THEN /\ InternalError(result[o].method) /\ InternalError(result[o].tool)
               /\ Len(sent[o]) = 1 /\ pc[o] = "done"
          ELSE /\ Len(sent[o]) >= 2 /\ IsTokenFetch(sent[o][2])
               /\ \E i \in Markers(text) :
                    /\ \A j \in Markers(text) : i <= j
                    /\ \A k \in 2..Len(sent[o]) : sent[o][k].auth = RunAfter(text, i)

\* a login answered 200 with "Auth=" and nothing after it but a line end
C11_Witness ==
  \E o \in Ops :
    /\ LoginAnswered(o) /\ recv[o][1].data = [str |-> <<"Auth=", "\n">>]
    /\ pc[o] = "done" /\ Len(sent[o]) = 1 /\ InternalError(result[o].tool)

TokenAnswered(o) ==
  tool[o] \in SessionTools /\ Len(recv[o]) >= 2 /\ TwoHundreds(recv[o][2])

BlankText(data) ==
  "str" \in DOMAIN data /\ \A k \in 1..Len(data.str) : data.str[k] \in {" ", "\n"}

\* C12: a token fetch answered with a body that is empty once its whitespace is
\* removed ends the call with an internal error and no request follows it; no
\* subscription-edit request carries an empty T.
C12_EditTokenRequired ==
  \A o \in Ops :
    /\ TokenAnswered(o) /\ BlankText(recv[o][2].data) =>
         /\ InternalError(result[o].method) /\ InternalError(result[o].tool)
         /\ Len(sent[o]) = 2 /\ pc[o] = "done"
    /\ \A i \in 1..Len(sent[o]) : IsEdit(sent[o][i]) => sent[o][i].data.T # <<>>

\* the token endpoint answered 200 with a blank and a line end
C12_Witness ==
  \E o \in Ops :
    /\ TokenAnswered(o) /\ recv[o][2].data = [str |-> <<" ", "\n">>]
    /\ pc[o] = "done" /\ Len(sent[o]) = 2 /\ InternalError(result[o].method)

-----------------------------------------------------------------------------
(* Properties of the Fever tools *)

FeverTools == SimpleTools \cup {"get_unread", "get_feed_items"}

\* a response with a 2xx status whose body has no api_version
Unversioned(resp) == TwoHundreds(resp) /\ "api_version" \notin DOMAIN resp.data

\* C13: whichever Fever tool is called, a response without api_version ends the
\* call: the tool call fails with an internal error, nothing is returned, and the
\* answered request is the last one sent and was sent once.
C13_VersionMarker ==
  \A o \in Ops :
    tool[o] \in FeverTools =>
      \A i \in 1..Len(recv[o]) :
        Unversioned(recv[o][i]) =>
          /\ i = Len(recv[o]) /\ Len(sent[o]) = i /\ pc[o] = "done"
          /\ result[o].method.kind = "throw"
          /\ InternalError(result[o].tool)
          /\ \A j \in 1..(i - 1) : sent[o][j] # sent[o][i]

\* mark_feed_read answered 200 with an empty object
C13_Witness ==
  \E o \in Ops :
    /\ tool[o] = "mark_feed_read" /\ Len(recv[o]) = 1
    /\ recv[o][1] = [kind |-> "response", status |-> 200, data |-> [f \in {} |-> TRUE]]
    /\ InternalError(result[o].tool)

-----------------------------------------------------------------------------
(* Properties of failures *)

\* the request got no response, or one with a status outside 2xx
Failed(resp) == resp.kind = "error" \/ resp.status \notin 200..299

\* the prefixes with which the code wraps the failure of a step
StepPrefixes ==
  {"FreshRSS Google Reader login failed: ", "FreshRSS Google Reader token failed: ",
   "FreshRSS tag list failed: ", "FreshRSS create category failed: ",
   "FreshRSS unsubscribe failed: "}

\* the prefix that names request i of invocation o is the prefix p
NamesStep(o, i, p) ==
  IF IsLogin(sent[o][i]) THEN p = "FreshRSS Google Reader login failed: "
  ELSE IF IsTokenFetch(sent[o][i]) THEN p = "FreshRSS Google Reader token failed: "
  ELSE IF IsTagList(sent[o][i]) THEN p = "FreshRSS tag list failed: "
  ELSE IF tool[o] = "create_category" THEN p = "FreshRSS create category failed: "
  ELSE IF tool[o] = "unsubscribe_feed" THEN p = "FreshRSS unsubscribe failed: "
  ELSE p # "" /\ p \notin StepPrefixes

\* C14 as claimed: when a request of a session tool fails and the call ends in an
\* error, the error is an internal error whose message begins with the prefix of
\* the step that failed.
C14_StepPrefix ==
  \A o \in Ops :
    tool[o] \in SessionTools =>
      \A i \in 1..Len(recv[o]) :
        Failed(recv[o][i]) /\ result[o].tool.kind = "throw" =>
          /\ InternalError(result[o].method)
          /\ InternalError(result[o].tool)
          /\ NamesStep(o, i, result[o].tool.error.prefix)

\* what a response that is no failure of the transport still lacks for its step
ProtocolViolation(o, i) ==
  /\ TwoHundreds(recv[o][i])
  /\ IF sent[o][i].api = "fever" THEN "api_version" \notin DOMAIN recv[o][i].data
     ELSE IF IsLogin(sent[o][i]) THEN Markers(BodyText(recv[o][i].data)) = {}
     ELSE IF IsTokenFetch(sent[o][i])
     THEN "str" \notin DOMAIN recv[o][i].data \/ BlankText(recv[o][i].data)
     ELSE FALSE

\* C15: no tool call sends the same request twice or has two requests out; once a
\* request has failed (no response, a status outside 2xx, or a protocol
\* violation) the call is over and that request is the last it sent.
C15_NoRetry ==
  \A o \in Ops :
    /\ \A i \in 1..Len(sent[o]) : \A j \in 1..(i - 1) : sent[o][j] # sent[o][i]
    /\ Len(sent[o]) <= Len(recv[o]) + 1
    /\ \A i \in 1..Len(recv[o]) :
         Failed(recv[o][i]) \/ ProtocolViolation(o, i) =>
           /\ i = Len(recv[o]) /\ Len(sent[o]) = i
           /\ pc[o] = "done" /\ result[o].method.kind # "none"

\* the tag list of a create_category call got no response
C15_Witness ==
  \E o \in Ops :
    /\ tool[o] = "create_category" /\ Len(recv[o]) = 3 /\ recv[o][3].kind = "error"
    /\ Len(sent[o]) = 3 /\ pc[o] = "done" /\ result[o].tool.kind = "throw"

-----------------------------------------------------------------------------
(* Properties of unsubscribeFeed *)

\* the invocation has its session: the token endpoint answered with a token
SessionEstablished(o) ==
  TokenAnswered(o) /\ "str" \in DOMAIN recv[o][2].data /\ ~BlankText(recv[o][2].data)

\* C16: an unsubscribe_feed call never reads the tag list nor subscribes; with its
\* session established it sends one subscription-edit request, third and last,
\* with ac = unsubscribe, s = feed/<feedId> and T = the edit token it fetched, and
\* it succeeds if that request succeeds and raises if it fails.
C16_Unsubscribe ==
  \A o \in Ops :
    tool[o] = "unsubscribe_feed" =>
      /\ Positions(o, IsTagList) = {}
      /\ \A i \in Positions(o, IsEdit) : sent[o][i].data.ac = "unsubscribe"
      /\ SessionEstablished(o) =>
           /\ Positions(o, IsEdit) = {3} /\ Len(sent[o]) = 3
           /\ sent[o][3].data =
                [ac |-> "unsubscribe", s |-> <<"feed/">> \o args[o].feed_id,
                 T |-> SelectSeq(recv[o][2].data.str, LAMBDA c : c \notin {" ", "\n"})]
           /\ sent[o][3].auth = sent[o][2].auth
           /\ Len(recv[o]) < 3 => result[o].tool.kind = "none"
           /\ Len(recv[o]) = 3 =>
                IF TwoHundreds(recv[o][3])
                THEN result[o].method.kind = "return" /\ result[o].tool.kind = "return"
                ELSE InternalError(result[o].method) /\ InternalError(result[o].tool)

\* an unsubscribe that went through
C16_Witness ==
  \E o \in Ops :
    /\ tool[o] = "unsubscribe_feed" /\ SessionEstablished(o) /\ Len(recv[o]) = 3
    /\ TwoHundreds(recv[o][3]) /\ result[o].tool.kind = "return"
    /\ sent[o][3].data.s = <<"feed/", "4", "2">>

-----------------------------------------------------------------------------
(* Properties of sessions under interleaving *)

\* the auth token the login of an invocation returned, if it returned one
AuthGiven(o) ==
  IF LoginAnswered(o)
  THEN {RunAfter(BodyText(recv[o][1].data), i) :
          i \in {k \in Markers(BodyText(recv[o][1].data)) :
                   \A j \in Markers(BodyText(recv[o][1].data)) : k <= j}}
  ELSE {}

\* the edit token the token fetch of an invocation returned, if it returned one
TokenGiven(o) ==
  IF SessionEstablished(o)
  THEN {SelectSeq(recv[o][2].data.str, LAMBDA c : c \notin {" ", "\n"})}
  ELSE {}

\* C17: every request after the login carries the auth token the login of the
\* same invocation returned; every subscription-edit request carries the edit
\* token that invocation fetched with that auth token; and no request carries a
\* token another invocation was given.
C17_TokensOfOneLogin ==
  \A o \in Ops :
    tool[o] \in SessionTools =>
      \A k \in 1..Len(sent[o]) :
        "auth" \in DOMAIN sent[o][k] =>
          /\ sent[o][k].auth \in AuthGiven(o)
          /\ \A p \in Ops \ {o} : sent[o][k].auth \notin AuthGiven(p)
          /\ IsEdit(sent[o][k]) =>
               /\ sent[o][k].data.T \in TokenGiven(o)
               /\ IsTokenFetch(sent[o][2]) /\ sent[o][2].auth = sent[o][k].auth
               /\ \A p \in Ops \ {o} : sent[o][k].data.T \notin TokenGiven(p)

\* two invocations with their subscription-edit requests in flight together
C17_Witness ==
  \E o, p \in Ops :
    /\ o # p /\ tool[o] = "subscribe_feed" /\ tool[p] = "create_category"
    /\ \E m, n \in outstanding :
         /\ m.op = o /\ n.op = p /\ IsEdit(m.req) /\ IsEdit(n.req)
         /\ m.req.data.T # n.req.data.T

-----------------------------------------------------------------------------
(* Properties of the requests of getUnreadItems *)

\* the ids an unread-id response names, in order: its symbols that are neither
\* separators nor padding (an id is one symbol of the text)
IdsNamed(data) ==
  SelectSeq(IF "unread_item_ids" \in DOMAIN data THEN data.unread_item_ids ELSE <<>>,
            LAMBDA c : c \notin {",", " ", "\n"})

\* C18: a getUnreadItems call that succeeds has sent one unread-id request and
\* then ceil(N/50) item requests, N being the number of ids named; the k-th item
\* request carries the k-th run of at most 50 ids, in order, joined by commas;
\* with N = 0 no item request is sent and the result is empty with total_items 0.
C18_BatchRequests ==
  \A o \in Ops :
    IsUnreadCall(o) /\ Succeeded(o) =>
      LET ids == IdsNamed(recv[o][1].data)
          N   == Len(ids)
      IN  /\ Len(sent[o]) = 1 + Ceil(N, BatchSize)
          /\ "unread_item_ids" \in DOMAIN sent[o][1].data
          /\ \A k \in 1..Ceil(N, BatchSize) :
               LET batch == SubSeq(ids, (k - 1) * BatchSize + 1,
                                   IF k * BatchSize <= N THEN k * BatchSize ELSE N)
               IN  /\ "with_ids" \in DOMAIN sent[o][k + 1].data
                   /\ SelectSeq(sent[o][k + 1].data.with_ids, LAMBDA c : c # ",") = batch
                   /\ Len(sent[o][k + 1].data.with_ids) = 2 * Len(batch) - 1
          /\ N = 0 => /\ result[o].method.value.items = [array |-> <<>>]
                      /\ result[o].method.value.total_items = 0

\* fifty-one padded ids with empty pieces between them: two item requests
C18_Witness ==
  \E o \in Ops :
    /\ IsUnreadCall(o) /\ Succeeded(o) /\ Len(sent[o]) = 3
    /\ "unread_item_ids" \in DOMAIN recv[o][1].data
    /\ Len(recv[o][1].data.unread_item_ids) > 2 * (BatchSize + 1)
    /\ Len(IdsNamed(recv[o][1].data)) = BatchSize + 1
    /\ Len(sent[o][3].data.with_ids) = 1

-----------------------------------------------------------------------------
(* Properties of the subscribe_feed tool result and of concurrent createCategory *)

\* C19 as claimed: the subscribe_feed tool reports success: true only for a
\* response with status 200 that carries no error, and success: false for every
\* response with another status, whatever its body.
C19_FailureReported ==
  \A o \in Ops :
    EditAnswered(o) /\ result[o].tool.kind = "return" =>
      /\ result[o].tool.value.success =>
           /\ recv[o][3].status = 200
           /\ ~NonEmptyField(recv[o][3].data, "error")
      /\ recv[o][3].status # 200 => ~result[o].tool.value.success

\* the placeholder subscribe requests sent for category c, by invocation and place
PlaceholderRequests(c) ==
  {<<o, i>> \in Ops \X (1..4) :
     /\ tool[o] = "create_category" /\ i <= Len(sent[o]) /\ IsEdit(sent[o][i])
     /\ sent[o][i].data.ac = "subscribe"
     /\ sent[o][i].data.a = <<"user/-/label/">> \o c}

\* no request of a create_category call has failed: the service carried out
\* every subscribe it was sent an answer for
AllCarriedOut ==
  \A o \in Ops :
    tool[o] = "create_category" => \A i \in 1..Len(recv[o]) : TwoHundreds(recv[o][i])

\* C20 as claimed: however the steps of createCategory calls for one name
\* interleave, at most one placeholder subscribe request with that label is sent
\* (the service adding the label when it carries out such a request).
C20_OnePlaceholder ==
  AllCarriedOut => \A c \in Categories : Cardinality(PlaceholderRequests(c)) <= 1

-----------------------------------------------------------------------------
(* Termination *)

\* the item requests a get_unread call may send: ceil(N/50) for the N ids its
\* unread-id response names, none if that response was no Fever response
ItemRequestsDue(o) ==
  IF Len(recv[o]) >= 1 /\ TwoHundreds(recv[o][1]) /\ ~Unversioned(recv[o][1])
  THEN Ceil(Len(IdsNamed(recv[o][1].data)), BatchSize)
  ELSE 0

\* C21: with every request answered in the end, every tool call that was made
\* comes to its end with a result or an error; and a get_unread call never sends
\* more than ceil(N/50) item requests for the N ids of its id list.
C21_Termination ==
  /\ \A o \in ToolCallers :
       (pc[o] # "idle") ~> (pc[o] = "done" /\ result[o].tool.kind \in {"return", "throw"})
  /\ [](\A o \in Ops : IsUnreadCall(o) => Len(sent[o]) - 1 <= ItemRequestsDue(o))

\* a get_unread call that came to its end after the three item requests of 101 ids
C21_Witness ==
  \E o \in Ops :
    /\ IsUnreadCall(o) /\ pc[o] = "done" /\ result[o].tool.kind = "return"
    /\ Len(IdsNamed(recv[o][1].data)) = 2 * BatchSize + 1
    /\ Len(sent[o]) = 4 /\ Len(recv[o]) = 4

====
